---- MODULE Spec2Model ----
(***************************************************************************)
(* Model of the private blockchain of src/src/blockchain.js (class         *)
(* Blockchain) and src/unnamed/part_000 (class Block).                     *)
(*                                                                         *)
(* JavaScript runs every synchronous segment to completion and then drains *)
(* the promise job (microtask) queue in FIFO order.  Each action below is  *)
(* one such segment: the synchronous part of an API call made by the       *)
(* caller, or one promise job taken from the head of `queue`.              *)
(*                                                                         *)
(* Strings are sequences of character codes, hex strings are sequences of  *)
(* hex digits 0..15.  SHA256 is modelled as a collision-free function: the *)
(* digest of a serialized block is the tuple of the serialized fields.     *)
(* The null hash is the empty tuple.                                       *)
(***************************************************************************)
EXTENDS Integers, Sequences, FiniteSets, TLC

(* ------------------------------ bounds -------------------------------- *)
\* longest chain an append is started on
MaxChain == 3
\* number of API calls whose promise jobs may be pending at the same time
MaxInFlight == 2
\* number of field mutations done from outside the class
MaxTamper == 1
\* number of seconds the clock advances after construction
MaxTicks == 1

(* --------------------------- program constants ------------------------ *)
\* blockchain.js:142  `timeElapsed >= 300`
Window == 300
\* blockchain.js:27   `this.height = -1`
EmptyHeight == -1

\* clock (Unix seconds) at construction
T0 == 300

(* ------------------------------ strings ------------------------------- *)
Null == <<>>

\* "A", "B": wallet addresses
Addresses == {<<65>>, <<66>>}
\* "s", "e-acute": star payloads (the second is not ASCII)
Stars == {<<115>>, <<233>>}

\* {"data":"Genesis Block"}
GenesisJSON ==
    <<123, 34, 100, 97, 116, 97, 34, 58, 34, 71, 101, 110, 101, 115, 105, 115,
      32, 66, 108, 111, 99, 107, 34, 125>>
\* {"owner":"
OwnerPrefix == <<123, 34, 111, 119, 110, 101, 114, 34, 58, 34>>
\* ","star":"
StarInfix == <<34, 44, 34, 115, 116, 97, 114, 34, 58, 34>>
\* "}
ObjSuffix == <<34, 125>>

GenesisData == [kind |-> "genesis", owner |-> Null, star |-> Null]
StarData(address, star) == [kind |-> "star", owner |-> address, star |-> star]

\* JSON.stringify(data) for the two payload shapes the class builds
JSONStringify(data) ==
    IF data.kind = "genesis" THEN GenesisJSON
    ELSE OwnerPrefix \o data.owner \o StarInfix \o data.star \o ObjSuffix

\* UTF-8 bytes of one character (code points below 2048)
Utf8Char(cp) ==
    IF cp < 128 THEN <<cp>> ELSE <<192 + (cp \div 64), 128 + (cp % 64)>>

RECURSIVE Utf8(_)
Utf8(s) == IF s = <<>> THEN <<>> ELSE Utf8Char(Head(s)) \o Utf8(Tail(s))

RECURSIVE ToHex(_)
ToHex(bytes) ==
    IF bytes = <<>> THEN <<>>
    ELSE <<Head(bytes) \div 16, Head(bytes) % 16>> \o ToHex(Tail(bytes))

\* Buffer.from(JSON.stringify(data)).toString('hex')
EncodeBody(data) == ToHex(Utf8(JSONStringify(data)))

\* the bytes a hex string spells, two digits a byte
RECURSIVE FromHex(_)
FromHex(hex) ==
    IF Len(hex) < 2 THEN <<>>
    ELSE <<16 * hex[1] + hex[2]>> \o FromHex(SubSeq(hex, 3, Len(hex)))

\* String.fromCharCode of every byte but the zero byte: one char per byte
RECURSIVE CharPerByte(_)
CharPerByte(bytes) ==
    IF bytes = <<>> THEN <<>>
    ELSE (IF Head(bytes) = 0 THEN <<>> ELSE <<Head(bytes)>>)
         \o CharPerByte(Tail(bytes))

\* hex2ascii(encodedData): the text with one character for every byte
Hex2Ascii(hex) == CharPerByte(FromHex(hex))

\* first position of `pat` in `s`, 0 when it does not occur
IndexOf(s, pat) ==
    LET at == {k \in 1..(Len(s) - Len(pat) + 1) :
                  SubSeq(s, k, k + Len(pat) - 1) = pat}
    IN  IF at = {} THEN 0 ELSE CHOOSE k \in at : \A j \in at : k <= j

\* JSON.parse of the two texts JSONStringify writes; anything else throws
JSONParse(text) ==
    LET n == Len(text)
        p == Len(OwnerPrefix)
        rest == SubSeq(text, p + 1, n - Len(ObjSuffix))
        k == IndexOf(rest, StarInfix)
    IN  IF text = GenesisJSON THEN [ok |-> TRUE, data |-> GenesisData]
        ELSE IF /\ n >= p + Len(StarInfix) + Len(ObjSuffix)
                /\ SubSeq(text, 1, p) = OwnerPrefix
                /\ SubSeq(text, n - Len(ObjSuffix) + 1, n) = ObjSuffix
                /\ k > 0
             THEN [ok |-> TRUE,
                   data |-> StarData(SubSeq(rest, 1, k - 1),
                                     SubSeq(rest, k + Len(StarInfix), Len(rest)))]
             ELSE [ok |-> FALSE, data |-> GenesisData]

(* ------------------------------- Block -------------------------------- *)
NewBlock(data) ==
    [hash |-> Null, height |-> 0, body |-> EncodeBody(data), time |-> 0,
     previousBlockHash |-> Null]

\* a digest that leaves the link to the previous block out
SHA256NoLink(b) == <<b.hash, b.height, b.body, b.time>>

\* SHA256(JSON.stringify(block)).toString(): all five fields, in order
SHA256Block(b) == <<b.hash, b.height, b.body, b.time, b.previousBlockHash>>

\* Block.validate(): the hash is recomputed with the hash field set to null
Validate(b) == b.hash = SHA256Block([b EXCEPT !.hash = Null])

\* validate() without line 87: the hash field is left null
AfterValidateCleared(b) == [b EXCEPT !.hash = Null]

\* lines 80-87: the block object once validate() has returned; the hash
\* field is set to null while the digest is computed and then put back
AfterValidate(b) ==
    LET currentHash == b.hash
        cleared == [b EXCEPT !.hash = Null]
    IN  [cleared EXCEPT !.hash = currentHash]

\* the chain once validate() has been called on every block
Walked(ch) == [i \in 1..Len(ch) |-> AfterValidate(ch[i])]

(* ------------------------------- state -------------------------------- *)
VARIABLES
    chain,      \* this.chain: sequence of blocks
    height,     \* this.height
    now,        \* the clock, Unix seconds
    queue,      \* promise jobs, FIFO
    calls,      \* the API calls in flight: errorLog, block, arguments
    running,    \* TRUE while caller code of the current job may still run
    last,       \* the call the latest step started or finished, if any
    stored,     \* per chain position: the block as _addBlock pushed it
    ntamper,    \* outside mutations done so far
    tampered,   \* the chain as the latest outside mutation left it
    resolved    \* calls resolved so far: submitStar, direct _addBlock

vars ==
    <<chain, height, now, queue, calls, running, last, stored, ntamper, tampered,
      resolved>>

CallIds == 0..(MaxInFlight - 1)

NaN == [nan |-> TRUE, n |-> 0]
Num(n) == [nan |-> FALSE, n |-> n]

\* no payload: the value of a call that returns none
NoData == [kind |-> "none", owner |-> Null, star |-> Null]

\* one API call: its arguments, the state of its promises, its errorLog
NoCall ==
    [op |-> "none",
     owner |-> Null, star |-> Null, inner |-> "none", status |-> "none", reason |-> "none",
     log |-> <<>>, block |-> NewBlock(GenesisData), num |-> 0, list |-> <<>>,
     seen |-> <<>>, seenStored |-> <<>>, data |-> NoData, msg |-> <<>>]

\* the arguments of a call and the clock reading it was made at
NoInput ==
    [t |-> NaN, sigOK |-> FALSE, at |-> 0, address |-> Null, star |-> Null,
     preset |-> FALSE, hash |-> Null, height |-> 0]

\* what the latest step did for a caller: "start" with the arguments and the
\* call record made, "settle" when the verdict of an append is handled,
\* "finish" with the record the caller's continuation got
NoEvent == [kind |-> "none", in |-> NoInput, call |-> NoCall]
Started(in, rec) == [kind |-> "start", in |-> in, call |-> rec]
Settled(rec) == [kind |-> "settle", in |-> NoInput, call |-> rec]
Finished(rec) == [kind |-> "finish", in |-> NoInput, call |-> rec]

Task(t, c, i, valid) == [t |-> t, c |-> c, i |-> i, valid |-> valid]

(* ---------------------------- validateChain --------------------------- *)
InvalidEntry(i) == [kind |-> "invalid", index |-> i]
LinkEntry(i) == [kind |-> "link", index |-> i]

\* the loop with the test of line 273 written `height > 1`
RECURSIVE LinkErrorsLate(_, _)
LinkErrorsLate(ch, i) ==
    IF i > Len(ch) THEN <<>>
    ELSE (IF i > 2 /\ ch[i].previousBlockHash # ch[i - 1].hash
          THEN <<LinkEntry(i - 1)>> ELSE <<>>) \o LinkErrorsLate(ch, i + 1)

\* the entries pushed inside the loop itself (lines 273-279)
RECURSIVE LinkErrors(_, _)
LinkErrors(ch, i) ==
    IF i > Len(ch) THEN <<>>
    ELSE (IF i > 1 /\ ch[i].previousBlockHash # ch[i - 1].hash
          THEN <<LinkEntry(i - 1)>> ELSE <<>>) \o LinkErrors(ch, i + 1)

\* a walk that calls validate() on the last block only
ValidateJobsLast(c, ch) ==
    <<Task("VCb", c, Len(ch) - 1, Validate(ch[Len(ch)]))>>

\* block.validate() runs inside the loop; only its .then callback is a job
ValidateJobs(c, ch) ==
    [i \in 1..Len(ch) |-> Task("VCb", c, i - 1, Validate(ch[i]))]

(* ------------------------------ _addBlock ------------------------------ *)
\* the fields set before the push, with the link to the last block left out
FinalizeNoLink(block, ch, h, t) ==
    LET b2 == [block EXCEPT !.time = t, !.height = h + 1]
    IN  [b2 EXCEPT !.hash = <<b2.hash, b2.height, b2.body, b2.time,
                              b2.previousBlockHash>>]

\* the fields set before the push, with the height not advanced
FinalizeSameHeight(block, ch, h, t) ==
    LET b1 == IF Len(ch) > 0
              THEN [block EXCEPT !.previousBlockHash = ch[Len(ch)].hash]
              ELSE block
        b2 == [b1 EXCEPT !.time = t, !.height = h]
    IN  [b2 EXCEPT !.hash = <<b2.hash, b2.height, b2.body, b2.time,
                              b2.previousBlockHash>>]

\* lines 68-74: the fields set before the push
Finalize(block, ch, h, t) ==
    LET b1 == IF Len(ch) > 0
              THEN [block EXCEPT !.previousBlockHash = ch[Len(ch)].hash]
              ELSE block
        b2 == [b1 EXCEPT !.time = t, !.height = h + 1]
    IN  [b2 EXCEPT !.hash = SHA256Block(b2)]

\* the jobs the synchronous part of _addBlock leaves in the queue
AddBlockJobs(c, ch) == ValidateJobs(c, ch) \o <<Task("AddThen", c, 0, TRUE)>>

\* the call record of an append in flight; `before` is the chain before the push
AddCall(op, data, block, before, ch) ==
    [NoCall EXCEPT !.op = op, !.owner = data.owner, !.star = data.star,
                   !.inner = "pending",
                   !.status = "pending", !.log = LinkErrors(ch, 1),
                   !.block = block, !.seen = before]

GenesisBlock == Finalize(NewBlock(GenesisData), <<>>, EmptyHeight, T0)

Init ==
    /\ chain = <<GenesisBlock>>
    /\ height = EmptyHeight + 1
    /\ now = T0
    /\ queue = AddBlockJobs(0, <<GenesisBlock>>)
    /\ calls = [c \in CallIds |->
                  IF c = 0
                  THEN AddCall("init", GenesisData, GenesisBlock, <<>>,
                               <<GenesisBlock>>)
                  ELSE NoCall]
    /\ running = TRUE
    /\ last = NoEvent
    /\ stored = <<GenesisBlock>>
    /\ ntamper = 0
    /\ tampered = <<>>
    /\ resolved = [submit |-> 0, append |-> 0]

(* --------------------------- caller's side ---------------------------- *)
FreeIds == {c \in CallIds : calls[c].op = "none"}
\* the slot a new call is given
NextId == CHOOSE c \in FreeIds : \A d \in FreeIds : c <= d

\* caller code runs in a fresh macrotask or inside a delivered continuation
CanCall == running /\ FreeIds # {}

\* a block that was hashed before: its hash field is not null any more
UsedHash == SHA256Block(NewBlock(GenesisData))

\* reject(...) of lines 141-145: the promise of a call that took one of the
\* refusing branches is rejected with the text of that branch
Refuse(rec, branch) ==
    IF branch = "append" THEN rec
    ELSE [rec EXCEPT !.status = "rejected", !.reason = branch]

\* _addBlock(block), lines 64-96, up to the await: the block is pushed, the
\* chain is validated, the verdicts wait in the queue
StartAddBlock(c, op, in, data, block, branch) ==
    LET b == Finalize(block, chain, height, now)
        ch == Append(chain, b)
        rec == Refuse(AddCall(op, data, b, chain, ch), branch)
    IN  /\ chain' = Walked(ch)
        /\ height' = height + 1
        /\ stored' = Append(stored, b)
        /\ calls' = [calls EXCEPT ![c] = rec]
        /\ queue' = queue \o AddBlockJobs(c, ch)
        /\ last' = Started(in, rec)

\* a direct call of _addBlock with a Block built from `address`, `star`;
\* `preset` is a Block object that carries a hash already
AppendBlock(address, star, preset) ==
    /\ CanCall
    /\ Len(chain) < MaxChain
    /\ LET data == StarData(address, star)
           fresh == NewBlock(data)
           block == IF preset THEN [fresh EXCEPT !.hash = UsedHash] ELSE fresh
           in == [NoInput EXCEPT !.address = address, !.star = star,
                                 !.preset = preset, !.at = now]
       IN  StartAddBlock(NextId, "append", in, data, block, "append")
    /\ UNCHANGED <<now, running, ntamper, tampered, resolved>>

(* ----------------------------- submitStar ----------------------------- *)
Colon == 58
IsDigit(ch) == ch >= 48 /\ ch <= 57

\* Number.prototype.toString for a non-negative integer
RECURSIVE Digits(_)
Digits(n) ==
    IF n < 10 THEN <<48 + n>> ELSE Digits(n \div 10) \o <<48 + (n % 10)>>

\* ":starRegistry"
RegistrySuffix ==
    <<58, 115, 116, 97, 114, 82, 101, 103, 105, 115, 116, 114, 121>>

\* requestMessageOwnershipVerification, line 108, for the clock reading t
RequestMessage(address, t) == address \o <<Colon>> \o Digits(t) \o RegistrySuffix

\* message.split(':')[1]: the text between the first colon and the next one;
\* undefined when the message holds no colon
FirstColon(s) ==
    IF \E k \in 1..Len(s) : s[k] = Colon
    THEN CHOOSE k \in 1..Len(s) :
             s[k] = Colon /\ \A j \in 1..(k - 1) : s[j] # Colon
    ELSE 0

SecondField(s) ==
    LET k == FirstColon(s)
        rest == SubSeq(s, k + 1, Len(s))
        e == FirstColon(rest)
    IN  IF k = 0 THEN [defined |-> FALSE, s |-> <<>>]
        ELSE [defined |-> TRUE,
              s |-> IF e = 0 THEN rest ELSE SubSeq(rest, 1, e - 1)]

RECURSIVE DigitsValue(_, _)
DigitsValue(s, acc) ==
    IF s = <<>> \/ ~IsDigit(Head(s)) THEN acc
    ELSE DigitsValue(Tail(s), 10 * acc + (Head(s) - 48))

\* parseInt: the leading decimal digits, NaN when there is none
ParseInt(f) ==
    IF ~f.defined \/ f.s = <<>> \/ ~IsDigit(Head(f.s)) THEN NaN
    ELSE Num(DigitsValue(f.s, 0))

\* arithmetic and comparison with NaN
Minus(x, y) == IF x.nan \/ y.nan THEN NaN ELSE Num(x.n - y.n)
Less(x, k) == ~x.nan /\ x.n < k
AtLeast(x, k) == ~x.nan /\ x.n >= k

\* a check of the signed text that does not look at the signer
VerifyAnySigner(message, address, signature) == signature.msg = message

\* a signature names its signer and the signed text
Sign(address, message) == [by |-> address, msg |-> message]
\* bitcoinMessage.verify(message, address, signature, null, true)
Verify(message, address, signature) ==
    signature = [by |-> address, msg |-> message]

\* line 134
TimeElapsed(message, currentTime) ==
    Minus(Num(currentTime), ParseInt(SecondField(message)))

\* the branches with the window test of line 142 written `>`
SubmitBranchLate(timeElapsed, verifiedMessage) ==
    IF Less(timeElapsed, 0) THEN "FutureMessageError"
    ELSE IF AtLeast(timeElapsed, Window + 1) THEN "ExpiredMessageError"
    ELSE IF ~verifiedMessage THEN "SignatureVerificationError"
    ELSE "append"

\* lines 140-146: which branch the call takes
SubmitBranch(timeElapsed, verifiedMessage) ==
    IF Less(timeElapsed, 0) THEN "FutureMessageError"
    ELSE IF AtLeast(timeElapsed, Window) THEN "ExpiredMessageError"
    ELSE IF ~verifiedMessage THEN "SignatureVerificationError"
    ELSE "append"

\* the block built and pushed after the tests, whatever they found
PushesAlways(branch) == TRUE

\* lines 146-148: the block is built and pushed in the last branch only
Pushes(branch) == branch = "append"

\* the timestamps a caller puts in a message
MsgTimes == {now - Window, now - Window + 1, now, now + 1}
MsgInputs == {Num(t) : t \in MsgTimes} \cup {NaN}

OtherAddress(address) == CHOOSE a \in Addresses : a # address

SubmitStar(address, t, sigOK, star) ==
    LET c == NextId
        message == IF t.nan THEN address ELSE RequestMessage(address, t.n)
        signature == IF sigOK THEN Sign(address, message)
                     ELSE Sign(OtherAddress(address), message)
        branch == SubmitBranch(TimeElapsed(message, now),
                               Verify(message, address, signature))
        in == [NoInput EXCEPT !.t = t, !.sigOK = sigOK, !.at = now,
                              !.address = address, !.star = star]
        \* a refused call never reads `star`
        refused == [in EXCEPT !.star = Null]
    IN  /\ CanCall
        /\ IF Pushes(branch)
           THEN /\ Len(chain) < MaxChain
                /\ StartAddBlock(c, "submit", in, StarData(address, star),
                                 NewBlock(StarData(address, star)), branch)
           ELSE LET rec == Refuse([NoCall EXCEPT !.op = "submit",
                                                 !.seen = chain], branch)
                IN  /\ calls' = [calls EXCEPT ![c] = rec]
                    /\ queue' = Append(queue, Task("Deliver", c, 0, TRUE))
                    /\ last' = Started(refused, rec)
                    /\ UNCHANGED <<chain, height, stored>>
        /\ UNCHANGED <<now, running, ntamper, tampered, resolved>>

(* --------------------------- read operations --------------------------- *)
\* getChainHeight, lines 46-50: resolved at once with the counter
GetChainHeight ==
    /\ CanCall
    /\ LET rec == [NoCall EXCEPT !.op = "height", !.status = "resolved",
                                 !.num = height, !.seen = chain]
       IN  /\ calls' = [calls EXCEPT ![NextId] = rec]
           /\ last' = Started(NoInput, rec)
    /\ queue' = Append(queue, Task("Deliver", NextId, 0, TRUE))
    /\ UNCHANGED <<chain, height, now, running, stored, ntamper, tampered, resolved>>

\* validateChain called by the caller, lines 255-285: the loop runs, the
\* promise is resolved with the errorLog array, the callbacks wait
ValidateChain ==
    /\ CanCall
    /\ LET rec == [NoCall EXCEPT !.op = "validate", !.status = "resolved",
                                 !.log = LinkErrors(chain, 1),
                                 !.seen = chain, !.seenStored = stored]
       IN  /\ calls' = [calls EXCEPT ![NextId] = rec]
           /\ last' = Started(NoInput, rec)
    /\ queue' = queue \o ValidateJobs(NextId, chain)
                      \o <<Task("Deliver", NextId, 0, TRUE)>>
    /\ chain' = Walked(chain)
    /\ UNCHANGED <<height, now, running, stored, ntamper, tampered, resolved>>

\* what an element of a returned list is
BlockItem(b) == [kind |-> "block", block |-> b, star |-> Null]
StarItem(s) == [kind |-> "star", block |-> NewBlock(GenesisData), star |-> s]

\* line 200: the predicate of the filter is `index > 0 && <a Promise>`; the
\* promise object is truthy whatever getBData will settle to
KeepBlock(ch, i, address) == i - 1 > 0 /\ TRUE

RECURSIVE FilterChain(_, _, _)
FilterChain(ch, i, address) ==
    IF i > Len(ch) THEN <<>>
    ELSE (IF KeepBlock(ch, i, address) THEN <<BlockItem(ch[i])>> ELSE <<>>)
         \o FilterChain(ch, i + 1, address)

\* getStarsByWalletAddress, lines 196-205: resolved with the filtered array
\* before any getBData callback runs
GetStarsByWalletAddress(address) ==
    /\ CanCall
    /\ LET rec == [NoCall EXCEPT !.op = "stars", !.status = "resolved",
                                 !.owner = address,
                                 !.list = FilterChain(chain, 1, address),
                                 !.seen = chain]
       IN  /\ calls' = [calls EXCEPT ![NextId] = rec]
           /\ last' = Started([NoInput EXCEPT !.address = address], rec)
    /\ queue' = Append(queue, Task("Deliver", NextId, 0, TRUE))
    /\ UNCHANGED <<chain, height, now, running, stored, ntamper, tampered, resolved>>

\* the comparison of line 181 written `>`
MatchHeightAbove(b, x) == b.height > x

\* line 163: `block.hash == hash`
MatchHash(b, x) == b.hash = x
\* line 181: `p.height === height`
MatchHeight(b, x) == b.height = x

\* filter(...)[0]: the first element kept, null (no element) when none is
FirstOf(ch, kept) ==
    IF kept = {} THEN <<>>
    ELSE <<BlockItem(ch[CHOOSE k \in kept : \A j \in kept : k <= j])>>

\* getBlockByHash, lines 160-171
GetBlockByHash(x) ==
    /\ CanCall
    /\ LET kept == {k \in 1..Len(chain) : MatchHash(chain[k], x)}
           rec == [NoCall EXCEPT !.op = "byhash", !.status = "resolved",
                                 !.list = FirstOf(chain, kept), !.seen = chain]
       IN  /\ calls' = [calls EXCEPT ![NextId] = rec]
           /\ last' = Started([NoInput EXCEPT !.hash = x], rec)
    /\ queue' = Append(queue, Task("Deliver", NextId, 0, TRUE))
    /\ UNCHANGED <<chain, height, now, running, stored, ntamper, tampered, resolved>>

\* getBlockByHeight, lines 178-188
GetBlockByHeight(x) ==
    /\ CanCall
    /\ LET kept == {k \in 1..Len(chain) : MatchHeight(chain[k], x)}
           rec == [NoCall EXCEPT !.op = "byheight", !.status = "resolved",
                                 !.list = FirstOf(chain, kept), !.seen = chain]
       IN  /\ calls' = [calls EXCEPT ![NextId] = rec]
           /\ last' = Started([NoInput EXCEPT !.height = x], rec)
    /\ queue' = Append(queue, Task("Deliver", NextId, 0, TRUE))
    /\ UNCHANGED <<chain, height, now, running, stored, ntamper, tampered, resolved>>

\* Block.getBData, lines 113-123: decode, parse, then the test on the height;
\* a throw inside the executor rejects the promise
BData(b) ==
    LET parsed == JSONParse(Hex2Ascii(b.body))
    IN  IF ~parsed.ok
        THEN [status |-> "rejected", reason |-> "SyntaxError", data |-> NoData]
        ELSE IF b.height = 0
        THEN [status |-> "rejected", reason |-> "GenesisBlockError",
              data |-> NoData]
        ELSE [status |-> "resolved", reason |-> "none", data |-> parsed.data]

\* getBData called on the block at chain position i
GetBData(i) ==
    /\ CanCall
    /\ i \in 1..Len(chain)
    /\ LET r == BData(chain[i])
           rec == [NoCall EXCEPT !.op = "bdata", !.status = r.status,
                                 !.reason = r.reason, !.data = r.data,
                                 !.block = chain[i]]
       IN  /\ calls' = [calls EXCEPT ![NextId] = rec]
           /\ last' = Started(NoInput, rec)
    /\ queue' = Append(queue, Task("Deliver", NextId, 0, TRUE))
    /\ UNCHANGED <<chain, height, now, running, stored, ntamper, tampered, resolved>>

\* requestMessageOwnershipVerification, lines 106-110
RequestMessageOwnershipVerification(address) ==
    /\ CanCall
    /\ LET rec == [NoCall EXCEPT !.op = "request", !.status = "resolved",
                                 !.owner = address,
                                 !.msg = RequestMessage(address, now)]
       IN  /\ calls' = [calls EXCEPT ![NextId] = rec]
           /\ last' = Started([NoInput EXCEPT !.address = address,
                                              !.at = now], rec)
    /\ queue' = Append(queue, Task("Deliver", NextId, 0, TRUE))
    /\ UNCHANGED <<chain, height, now, running, stored, ntamper, tampered, resolved>>

\* the test of line 37 written `<= 0`
InitNeededLow(h) == h <= 0

\* line 37: `this.height === -1`
InitNeeded(h) == h = EmptyHeight

\* initializeChain called again, lines 36-41: an async function, so the
\* promise of a call that does nothing is resolved at once
InitializeChain ==
    /\ CanCall
    /\ IF InitNeeded(height)
       THEN /\ Len(chain) < MaxChain
            /\ StartAddBlock(NextId, "init", NoInput, GenesisData,
                             NewBlock(GenesisData), "append")
       ELSE LET rec == [NoCall EXCEPT !.op = "init", !.status = "resolved",
                                      !.seen = chain]
            IN  /\ calls' = [calls EXCEPT ![NextId] = rec]
                /\ queue' = Append(queue, Task("Deliver", NextId, 0, TRUE))
                /\ last' = Started(NoInput, rec)
                /\ UNCHANGED <<chain, height, stored>>
    /\ UNCHANGED <<now, running, ntamper, tampered, resolved>>

(* ------------------------------ tampering ------------------------------ *)
Fields == {"hash", "height", "body", "time", "previousBlockHash"}

\* a stored block is a plain mutable object: one field gets another value
Mutate(b, f) ==
    CASE f = "hash" -> [b EXCEPT !.hash = IF @ = UsedHash THEN Null ELSE UsedHash]
      [] f = "height" -> [b EXCEPT !.height = @ + 1]
      [] f = "body" ->
           [b EXCEPT !.body = IF @ = EncodeBody(GenesisData)
                              THEN EncodeBody(StarData(<<65>>, <<115>>))
                              ELSE EncodeBody(GenesisData)]
      [] f = "time" -> [b EXCEPT !.time = @ + 1]
      [] f = "previousBlockHash" ->
           [b EXCEPT !.previousBlockHash = IF @ = UsedHash THEN Null ELSE UsedHash]

\* done by code outside the class, in a macrotask of its own
Tamper(i, f) ==
    /\ queue = <<>>
    /\ ntamper < MaxTamper
    /\ i \in 1..Len(chain)
    /\ chain' = [chain EXCEPT ![i] = Mutate(@, f)]
    /\ ntamper' = ntamper + 1
    /\ tampered' = chain'
    /\ UNCHANGED <<height, now, queue, calls, running, stored, resolved>>
    /\ last' = NoEvent

\* the clock is read at whole seconds; it advances between macrotasks
Tick ==
    /\ queue = <<>>
    /\ now < T0 + MaxTicks
    /\ now' = now + 1
    /\ UNCHANGED <<chain, height, queue, calls, running, stored, ntamper, tampered,
                   resolved>>
    /\ last' = NoEvent

(* ----------------------------- promise jobs ---------------------------- *)
Job == Head(queue)
\* after a job of the class no caller code runs until the queue is drained
Rest(q) == /\ queue' = q
           /\ running' = (q = <<>>)

\* lines 265-268: the callback of block.validate().then
RunValidateCallback ==
    /\ queue # <<>> /\ Job.t = "VCb"
    /\ calls' = [calls EXCEPT ![Job.c].log =
                   IF Job.valid THEN @ ELSE Append(@, InvalidEntry(Job.i))]
    /\ Rest(Tail(queue))
    /\ UNCHANGED <<chain, height, now, stored, ntamper, tampered, resolved>>
    /\ last' = NoEvent

\* the job that follows the settling of the _addBlock promise
Continuation(op, c) ==
    Task(CASE op = "submit" -> "SubmitCont"
           [] op = "init" -> "InitCont"
           [] OTHER -> "Deliver", c, 0, TRUE)

\* the errorLog as it was when resolve() was called: the loop's entries only
DeliveredAtResolve(rec) ==
    IF rec.op = "validate"
    THEN [rec EXCEPT !.list = LinkErrors(rec.seen, 1)]
    ELSE rec

\* the value a settled promise hands over: an errorLog is handed over as the
\* array itself, so the caller reads what it holds at that moment
Delivered(rec) ==
    IF rec.op = "validate" \/ rec.reason = "ChainValidationError"
    THEN [rec EXCEPT !.list = rec.log] ELSE rec

\* the test of line 81 with the bound off by one
HasManyErrors(errorLog) == Len(errorLog) > 1

\* line 81: the test on the delivered errorLog
HasErrors(errorLog) == Len(errorLog) > 0

\* Array.prototype.shift: the first element goes
Shift(ch) == Tail(ch)

\* Array.prototype.pop: the last element goes, whatever block it is
Pop(ch) == SubSeq(ch, 1, Len(ch) - 1)

\* the rollback without line 84
HeightKept(h, failed) == h

\* lines 83-84 and 87: the height counter after the verdict
HeightAfter(h, failed) == IF failed THEN h - 1 ELSE h

\* lines 79-88: the callback of validateChain().then
RunAddThen ==
    /\ queue # <<>> /\ Job.t = "AddThen"
    /\ LET c == Job.c
           rec == calls[c]
           failed == HasErrors(rec.log)
           verdict == IF failed THEN "rejected" ELSE "resolved"
           after == [rec EXCEPT !.inner = verdict,
                                !.status = IF rec.op = "append" THEN verdict
                                           ELSE rec.status,
                                !.reason = IF failed
                                           THEN "ChainValidationError"
                                           ELSE rec.reason]
       IN  /\ chain' = IF failed THEN Pop(chain) ELSE chain
           /\ stored' = IF failed THEN Pop(stored) ELSE stored
           /\ height' = HeightAfter(height, failed)
           /\ calls' = [calls EXCEPT ![c] = after]
           /\ last' = Settled(Delivered(after))
           /\ resolved' = IF rec.op = "append" /\ ~failed
                          THEN [resolved EXCEPT !.append = @ + 1]
                          ELSE resolved
           /\ Rest(Tail(queue) \o <<Continuation(rec.op, c)>>)
    /\ UNCHANGED <<now, ntamper, tampered>>

\* a call leaves the model: `last` shows what its caller got
Finish(c, rec) ==
    /\ last' = Finished(rec)
    /\ calls' = [calls EXCEPT ![c] = NoCall]

\* lines 148-149: submitStar after `await self._addBlock(block)`.  When the
\* awaited promise is rejected the async executor throws, nothing settles the
\* promise submitStar returned, and no job of this call is left
RunSubmitCont ==
    /\ queue # <<>> /\ Job.t = "SubmitCont"
    /\ LET c == Job.c
       IN  IF calls[c].inner = "resolved"
           THEN /\ calls' = [calls EXCEPT ![c].status = "resolved"]
                /\ Rest(Tail(queue) \o <<Task("Deliver", c, 0, TRUE)>>)
                /\ last' = NoEvent
                /\ resolved' = [resolved EXCEPT !.submit = @ + 1]
           ELSE /\ Finish(c, [calls[c] EXCEPT !.list = calls[c].log])
                /\ Rest(Tail(queue))
                /\ resolved' = resolved
    /\ UNCHANGED <<chain, height, now, stored, ntamper, tampered>>

\* lines 39-40: initializeChain after `await this._addBlock(block)`
RunInitCont ==
    /\ queue # <<>> /\ Job.t = "InitCont"
    /\ Finish(Job.c, [calls[Job.c] EXCEPT !.status = calls[Job.c].inner,
                                          !.list = calls[Job.c].log])
    /\ Rest(Tail(queue))
    /\ UNCHANGED <<chain, height, now, stored, ntamper, tampered, resolved>>

\* the caller's continuation (.then / await) of the promise an API call gave
Deliver ==
    /\ queue # <<>> /\ Job.t = "Deliver"
    /\ Finish(Job.c, Delivered(calls[Job.c]))
    /\ queue' = Tail(queue)
    /\ running' = TRUE
    /\ UNCHANGED <<chain, height, now, stored, ntamper, tampered, resolved>>

(* ---------------------------- specifications --------------------------- *)
Calls ==
    \/ \E p \in BOOLEAN : AppendBlock(<<65>>, <<115>>, p)
    \/ \E a \in Addresses, t \in MsgInputs, sig \in BOOLEAN, s \in Stars :
          SubmitStar(a, t, sig, s)
    \/ GetChainHeight
    \/ ValidateChain
    \/ \E a \in Addresses : GetStarsByWalletAddress(a)

Jobs ==
    \/ RunValidateCallback
    \/ RunAddThen
    \/ RunSubmitCont
    \/ RunInitCont
    \/ Deliver

\* callers may overlap their calls; nothing outside the class touches a block
Next ==
    \/ Calls
    \/ Jobs
    \/ Tick

Spec == Init /\ [][Next]_vars

\* stored blocks are mutated from outside; callers make one call at a time
NextTamper ==
    \/ (queue = <<>> /\ Calls)
    \/ Jobs
    \/ Tick
    \/ \E i \in 1..MaxChain, f \in Fields : Tamper(i, f)

SpecTamper == Init /\ [][NextTamper]_vars

\* the lookups, the decoder, the challenge and a repeated initializeChain,
\* with appends that are kept and appends that are rolled back
Reads ==
    \/ \E x \in {chain[k].hash : k \in 1..Len(chain)} \cup {Null, UsedHash} :
          GetBlockByHash(x)
    \/ \E x \in 0..MaxChain : GetBlockByHeight(x)
    \/ \E i \in 1..MaxChain : GetBData(i)
    \/ \E a \in Addresses : RequestMessageOwnershipVerification(a)
    \/ InitializeChain

NextReads ==
    \/ \E p \in BOOLEAN : AppendBlock(<<65>>, <<115>>, p)
    \/ \E s \in Stars : SubmitStar(<<66>>, Num(now), TRUE, s)
    \/ GetChainHeight
    \/ ValidateChain
    \/ \E a \in Addresses : GetStarsByWalletAddress(a)
    \/ Reads
    \/ Jobs

SpecReads == Init /\ [][NextReads]_vars

\* stored blocks are mutated from outside and callers overlap their appends;
\* every submission of an address carries the one message stamped T0
NextDefect ==
    \/ \E p \in BOOLEAN : AppendBlock(<<65>>, <<115>>, p)
    \/ \E a \in Addresses, sig \in BOOLEAN, s \in Stars :
          SubmitStar(a, Num(T0), sig, s)
    \/ ValidateChain
    \/ Jobs
    \/ Tick
    \/ \E i \in 1..MaxChain, f \in Fields : Tamper(i, f)

SpecDefect == Init /\ [][NextDefect]_vars

(* ------------------------------ properties ----------------------------- *)
Range(q) == {q[k] : k \in 1..Len(q)}
IsAdd(rec) == rec.op \in {"init", "append", "submit"}

\* C1: with no mutation from outside the chain is hash-linked in every
\* state: the block at index i has height i, every block but the first
\* names the hash of its predecessor, and the first block has no predecessor
\* and holds the genesis payload.
Linked(ch) ==
    /\ Len(ch) > 0
    /\ ch[1].previousBlockHash = Null
    /\ ch[1].body = EncodeBody(GenesisData)
    /\ \A i \in 1..Len(ch) :
          /\ ch[i].height = i - 1
          /\ i > 1 => ch[i].previousBlockHash = ch[i - 1].hash
C1_ChainLinked == Linked(chain)

\* a failed append was rolled back below a block that stayed
C1_Witness ==
    /\ last.kind = "settle"
    /\ last.call.inner = "rejected"
    /\ Len(chain) >= 2

\* C2: when an append is rejected it is rejected with its error list, and
\* the chain and the height counter are what they were before the call.
C2_RollbackRestores ==
    (last.kind = "settle" /\ last.call.inner = "rejected") =>
        /\ last.call.reason = "ChainValidationError"
        /\ Len(last.call.list) > 0
        /\ chain = last.call.seen
        /\ height = Len(last.call.seen) - 1

\* C3: a block whose append is resolved is in the chain at its height and
\* validates: its hash is the digest of its other fields.
C3_StoredBlockValid ==
    (last.kind = "settle" /\ last.call.inner = "resolved") =>
        LET b == last.call.block
        IN  /\ b.height + 1 \in 1..Len(chain)
            /\ chain[b.height + 1] = b
            /\ Validate(chain[b.height + 1])

C3_Witness ==
    /\ last.kind = "settle"
    /\ last.call.inner = "resolved"
    /\ last.call.op = "submit"
    /\ Len(chain) = 3

\* C4: a stored block that differs from what was stored in exactly one field
\* does not validate, and the list validateChain hands to its caller holds an
\* entry for it.
Changed(b, o) == {f \in Fields : b[f] # o[f]}
C4_TamperDetected ==
    (last.kind = "finish" /\ last.call.op = "validate") =>
        \A i \in 1..Len(last.call.seen) :
            Cardinality(Changed(last.call.seen[i], last.call.seenStored[i])) = 1
            => /\ ~Validate(last.call.seen[i])
               /\ InvalidEntry(i - 1) \in Range(last.call.list)

\* the body of the block at height 1 was changed
C4_Witness ==
    /\ last.kind = "finish"
    /\ last.call.op = "validate"
    /\ Len(last.call.seen) >= 2
    /\ Changed(last.call.seen[2], last.call.seenStored[2]) = {"body"}

\* C5: the list a caller of validateChain receives, and the list the append
\* receives from its own validateChain, hold an entry for every block that
\* did not validate when the chain was walked.
C5_AllVerdictsCollected ==
    /\ (last.kind = "finish" /\ last.call.op = "validate") =>
          \A i \in 1..Len(last.call.seen) :
              ~Validate(last.call.seen[i])
              => InvalidEntry(i - 1) \in Range(last.call.list)
    /\ (last.kind = "settle") =>
          LET walked == Append(last.call.seen, last.call.block)
          IN  \A i \in 1..Len(walked) :
                  ~Validate(walked[i])
                  => InvalidEntry(i - 1) \in Range(last.call.list)

\* a caller of validateChain got a list naming an invalid block
C5_Witness ==
    /\ last.kind = "finish"
    /\ last.call.op = "validate"
    /\ \E i \in 1..Len(last.call.seen) : ~Validate(last.call.seen[i])

\* C6: the height counter is the chain length minus one and never -1.
C6_HeightIsLength ==
    /\ height = Len(chain) - 1
    /\ height # EmptyHeight

\* a rollback has just happened while another append is still in flight
C6_Witness ==
    /\ last.kind = "settle"
    /\ last.call.inner = "rejected"
    /\ \E c \in CallIds : calls[c].inner = "pending"

\* C7: the outcome of submitStar follows from the elapsed seconds and the
\* signature, tested in this order: negative elapsed time, elapsed time of
\* 300 or more, signature that does not verify; otherwise the block is pushed.
Expected(elapsed, sigOK) ==
    IF elapsed < 0 THEN "FutureMessageError"
    ELSE IF elapsed >= 300 THEN "ExpiredMessageError"
    ELSE IF ~sigOK THEN "SignatureVerificationError"
    ELSE "append"

Outcome(rec) == IF rec.status = "rejected" THEN rec.reason ELSE "append"

C7_SubmitOutcome ==
    (last.kind = "start" /\ last.call.op = "submit" /\ ~last.in.t.nan) =>
        /\ Outcome(last.call) = Expected(last.in.at - last.in.t.n, last.in.sigOK)
        /\ Outcome(last.call) = "append" =>
              /\ last.call.inner = "pending"
              /\ chain = Append(last.call.seen, last.call.block)
        /\ Outcome(last.call) # "append" => chain = last.call.seen

\* a message signed 299 seconds ago is taken
C7_Witness ==
    /\ last.kind = "start"
    /\ last.call.op = "submit"
    /\ ~last.in.t.nan
    /\ last.in.at - last.in.t.n = 299
    /\ last.call.inner = "pending"

\* C8: when the append inside submitStar is rejected, submitStar is rejected
\* with the error list.
C8_SubmitPropagates ==
    (last.kind = "finish" /\ last.call.op = "submit"
        /\ last.call.inner = "rejected") =>
        /\ last.call.status = "rejected"
        /\ last.call.list = last.call.log
        /\ Len(last.call.list) > 0

\* C9: a resolved submitStar has pushed one block, at the height after the
\* one before the call, linked to the block that was last, with the payload
\* of its arguments; with no append in flight and no direct _addBlock
\* resolved, getChainHeight returns the number of resolved submitStar calls.
Quiet ==
    \A c \in CallIds :
        IsAdd(calls[c]) => calls[c].status # "pending" /\ calls[c].inner # "pending"

C9_SubmitAppendsOne ==
    /\ (last.kind = "settle" /\ last.call.op = "submit"
          /\ last.call.inner = "resolved") =>
          LET b == last.call.block
              before == last.call.seen
          IN  /\ b.height = (Len(before) - 1) + 1
              /\ b.previousBlockHash = before[Len(before)].hash
              /\ b.body = EncodeBody(StarData(last.call.owner, last.call.star))
              /\ chain[b.height + 1] = b
    /\ (last.kind = "start" /\ last.call.op = "submit"
          /\ last.call.inner = "pending") =>
          chain = Append(last.call.seen, last.call.block)
    /\ (last.kind = "start" /\ last.call.op = "height" /\ Quiet
          /\ resolved.append = 0) =>
          last.call.num = resolved.submit

\* getChainHeight returns 2 after two resolved submissions
C9_Witness ==
    /\ last.kind = "start"
    /\ last.call.op = "height"
    /\ Quiet
    /\ resolved = [submit |-> 2, append |-> 0]
    /\ last.call.num = 2

\* C10: getStarsByWalletAddress(addr) returns the stars submitted by addr, in
\* chain order, and nothing else.
RECURSIVE StarsOf(_, _, _)
StarsOf(ch, i, address) ==
    IF i > Len(ch) THEN <<>>
    ELSE (IF i > 1 /\ \E s \in Stars : ch[i].body = EncodeBody(StarData(address, s))
          THEN <<StarItem(CHOOSE s \in Stars :
                              ch[i].body = EncodeBody(StarData(address, s)))>>
          ELSE <<>>) \o StarsOf(ch, i + 1, address)

C10_StarsOfOwner ==
    (last.kind = "finish" /\ last.call.op = "stars") =>
        last.call.list = StarsOf(last.call.seen, 1, last.call.owner)

\* C11: getBData on a block of height 0 is rejected with the genesis-block
\* error, and on any other stored block it is resolved with the payload the
\* block was built from: decoding undoes the encoding of the constructor.
Payloads == {GenesisData} \cup {StarData(a, s) : a \in Addresses, s \in Stars}

C11_BDataRoundTrip ==
    (last.kind = "start" /\ last.call.op = "bdata") =>
        LET b == last.call.block
        IN  IF b.height = 0
            THEN /\ last.call.status = "rejected"
                 /\ last.call.reason = "GenesisBlockError"
            ELSE /\ last.call.status = "resolved"
                 /\ \A x \in Payloads :
                        b.body = EncodeBody(x) => last.call.data = x

\* C12: a read that runs while an append is in flight never observes the
\* block (or the raised height) of an append that is going to be rolled back.
ReadOps == {"height", "byhash", "byheight", "stars", "validate"}

\* an append in flight whose validation has found an error: its verdicts
\* were computed when the chain was walked, only their callbacks are pending
Doomed(c) ==
    /\ calls[c].inner = "pending"
    /\ \/ calls[c].log # <<>>
       \/ \E k \in 1..Len(queue) :
             queue[k].t = "VCb" /\ queue[k].c = c /\ ~queue[k].valid

C12_ReadsSeeCommitted ==
    (last.kind = "start" /\ last.call.op \in ReadOps) =>
        \A c \in CallIds :
            Doomed(c) =>
                /\ calls[c].block \notin Range(last.call.seen)
                /\ last.call.op = "height" => last.call.num < calls[c].block.height

\* C13: in every state after construction the chain starts with the genesis
\* block built by the constructor, whose previousBlockHash is null, and
\* getBlockByHeight(0) returns that block; no rollback removes it.
C13_GenesisStays ==
    /\ Len(chain) >= 1
    /\ chain[1] = GenesisBlock
    /\ chain[1].previousBlockHash = Null
    /\ height >= 0
    /\ (last.kind = "start" /\ last.call.op = "byheight"
          /\ last.in.height = 0) =>
          last.call.list = <<BlockItem(GenesisBlock)>>

\* getBlockByHeight(0) is called after a rollback, the rejection still
\* waiting to be delivered
C13_Witness ==
    /\ last.kind = "start"
    /\ last.call.op = "byheight"
    /\ last.in.height = 0
    /\ last.call.list = <<BlockItem(GenesisBlock)>>
    /\ \E c \in CallIds : calls[c].inner = "rejected"

\* C14: getBlockByHash and getBlockByHeight are always resolved, with the
\* first block whose hash (height) is the argument or with null; for a
\* stored block its own hash and its own height give that block back, and a
\* height above the chain height gives null.
C14_LookupFindsBlock ==
    /\ (last.kind = "start" /\ last.call.op = "byheight") =>
          LET ch == last.call.seen
              x == last.in.height
          IN  /\ last.call.status = "resolved"
              /\ last.call.list = IF x + 1 \in 1..Len(ch)
                                  THEN <<BlockItem(ch[x + 1])>> ELSE <<>>
    /\ (last.kind = "start" /\ last.call.op = "byhash") =>
          LET ch == last.call.seen
              x == last.in.hash
          IN  /\ last.call.status = "resolved"
              /\ \A k \in 1..Len(ch) :
                    (ch[k].hash = x /\ \A j \in 1..(k - 1) : ch[j].hash # x)
                    => last.call.list = <<BlockItem(ch[k])>>
              /\ (\A k \in 1..Len(ch) : ch[k].hash # x)
                    => last.call.list = <<>>

\* the block at height 2 is looked up by its height
C14_Witness ==
    /\ last.kind = "start"
    /\ last.call.op = "byheight"
    /\ last.in.height = 2
    /\ Len(last.call.seen) = 3
    /\ last.call.list = <<BlockItem(chain[3])>>

C16_ReadsChangeNothing ==
    [][/\ (chain' # chain \/ height' # height) =>
             \/ last'.kind = "settle"
             \/ last'.kind = "start" /\ last'.call.inner = "pending"
       /\ (last'.kind = "start" /\ last'.call.inner = "pending") =>
             SubSeq(chain', 1, Len(chain)) = chain
       /\ (last'.kind = "start"
             /\ last'.call.op \in ReadOps \cup {"request", "bdata"}) =>
             (chain' = chain /\ height' = height)]_vars

\* validateChain has walked a chain of two blocks
C16_Witness ==
    /\ last.kind = "start"
    /\ last.call.op = "validate"
    /\ Len(chain) >= 2
    /\ chain = last.call.seen

\* C17: initializeChain called on a chain that holds its genesis block
\* pushes nothing: the chain and the height stay as they are, the call is
\* resolved, and no second block with the genesis payload ever exists.
C17_InitIdempotent ==
    /\ (last.kind = "start" /\ last.call.op = "init") =>
          /\ last.call.inner = "none"
          /\ last.call.status = "resolved"
          /\ chain = last.call.seen
          /\ height = Len(last.call.seen) - 1
    /\ Cardinality({i \in 1..Len(chain) :
                      chain[i].body = EncodeBody(GenesisData)}) = 1

\* initializeChain is called on a chain of two blocks
C17_Witness ==
    /\ last.kind = "start"
    /\ last.call.op = "init"
    /\ Len(chain) >= 2
    /\ chain = last.call.seen

\* C18: when appends overlap, the rollback of a rejected append removes the
\* block that this append pushed: once an append is rejected its block is
\* not in the chain, and the block of a resolved append is in the chain.
C18_RollbackRemovesOwn ==
    /\ (last.kind = "settle" /\ last.call.inner = "rejected") =>
          last.call.block \notin Range(chain)
    /\ \A c \in CallIds :
          (IsAdd(calls[c]) /\ calls[c].inner = "resolved") =>
              calls[c].block \in Range(chain)

\* C19: a submitStar that is refused for its timestamp or its signature
\* builds and pushes no block: the step that makes the call and the step
\* that hands the error to the caller leave the chain and the height alone,
\* and the call never has an append of its own.
Refusals ==
    {"FutureMessageError", "ExpiredMessageError", "SignatureVerificationError"}

C19_RefusedChangesNothing ==
    [][(/\ last'.kind \in {"start", "finish"}
        /\ last'.call.op = "submit"
        /\ last'.call.reason \in Refusals) =>
            /\ chain' = chain
            /\ height' = height
            /\ last'.call.inner = "none"
            /\ last'.call.status = "rejected"]_vars

\* an expired message is refused on a chain of two blocks
C19_Witness ==
    /\ last.kind = "finish"
    /\ last.call.op = "submit"
    /\ last.call.reason = "ExpiredMessageError"
    /\ Len(chain) >= 2

\* C20: submitStar pushes a block only for a message that carries a
\* timestamp t with 0 <= now - t < 300; a message without a numeric second
\* field is never accepted.
C20_NaNNeverAccepted ==
    (last.kind = "start" /\ last.call.op = "submit"
        /\ last.call.inner = "pending") =>
        /\ ~last.in.t.nan
        /\ last.in.at - last.in.t.n >= 0
        /\ last.in.at - last.in.t.n < Window

\* C21: an append started on a chain that holds an invalid block or a broken
\* link is rejected; while the chain is defective it only grows by blocks of
\* appends still in flight, and once none is in flight the chain and the
\* height are what the mutation left.
Defective(ch) ==
    \/ \E i \in 1..Len(ch) : ~Validate(ch[i])
    \/ LinkErrors(ch, 1) # <<>>

NoAppendPending == \A c \in CallIds : calls[c].inner # "pending"

C21_DefectBlocksAppends ==
    /\ (last.kind = "settle" /\ Defective(last.call.seen)) =>
          last.call.inner = "rejected"
    /\ (last.kind = "finish" /\ last.call.op = "validate") =>
          (last.call.list # <<>> <=> Defective(last.call.seen))
    /\ (ntamper > 0 /\ Defective(tampered)) =>
          /\ Len(chain) >= Len(tampered)
          /\ SubSeq(chain, 1, Len(tampered)) = tampered
          /\ NoAppendPending =>
                (chain = tampered /\ height = Len(tampered) - 1)

\* the second of two overlapping appends on a chain whose genesis block was
\* mutated has been rejected, and the chain is back to what it was
C21_Witness ==
    /\ last.kind = "settle"
    /\ last.call.inner = "rejected"
    /\ ntamper > 0
    /\ ~Validate(tampered[1])
    /\ Len(last.call.seen) = Len(tampered) + 1
    /\ NoAppendPending
    /\ chain = tampered

\* C22: whether submitStar pushes a block follows from the message, the
\* address, the signature and the clock alone, whatever the chain holds and
\* whatever was submitted or requested before; a submission that passes
\* pushes one new block at the end of the chain, also when the chain holds a
\* block of the same submission already.
Decide(in) ==
    IF in.t.nan
    THEN (IF in.sigOK THEN "append" ELSE "SignatureVerificationError")
    ELSE Expected(in.at - in.t.n, in.sigOK)

C22_DecisionFromInputs ==
    (last.kind = "start" /\ last.call.op = "submit") =>
        /\ Outcome(last.call) = Decide(last.in)
        /\ Outcome(last.call) = "append" =>
              /\ chain = Append(last.call.seen, last.call.block)
              /\ last.call.block \notin Range(last.call.seen)
              /\ last.call.block.body =
                    EncodeBody(StarData(last.in.address, last.in.star))

\* the message of B stamped T0, with the same signature and star, passes a
\* second later although the chain holds the block of its first submission
C22_Witness ==
    /\ last.kind = "start"
    /\ last.call.op = "submit"
    /\ last.call.inner = "pending"
    /\ last.in.address = <<66>>
    /\ last.in.t = Num(T0)
    /\ last.in.at = T0 + 1
    /\ \E i \in 2..Len(last.call.seen) :
          /\ last.call.seen[i].body = last.call.block.body
          /\ last.call.seen[i].time = T0

====
